---- MODULE Spec2Model ----
(***************************************************************************)
(* State-machine model of the SBDK watch / auto-rerun programs.            *)
(*                                                                         *)
(* Spec models the watch commands that share the watchdog handler shape:   *)
(*   "clean"   the interactive dev server                                  *)
(*             (sbdk-dev/sbdk/cli/commands/start.py)                       *)
(*   "starter" sbdk-starter/cli/start.py                                   *)
(*   "run"     sbdk/cli/commands/run.py  (run --watch)                     *)
(*   "dev"     sbdk/cli/commands/dev.py  (dev --watch)                     *)
(*   "mgr"     the state manager and handlers of sbdk/cli/commands/start.py*)
(* Which program runs is fixed in the initial state (variable handler).    *)
(***************************************************************************)
EXTENDS Integers, Sequences, FiniteSets, TLC

\* ------------------------------------------------------------------ bounds
MaxTime == 7
MaxEvents == 3
MaxRuns == 2
\* requests the webhook server answers
MaxRequests == 3

\* ------------------------------------------------------- program constants
\* ServerState.add_file_change keeps the last 10 changes
KeepChanges == 10

Handlers == {"clean", "starter", "run", "dev", "mgr", "visual"}

\* debounce_seconds defaults of the handler constructors
debounce_seconds ==
  [clean |-> 3, starter |-> 2, run |-> 2, dev |-> 2, mgr |-> 0, visual |-> 0]

\* time.time() at program start is far beyond last_triggered = 0: the clock
\* of the model starts one debounce interval (plus one) after zero.
TimeAtStart == debounce_seconds["clean"] + 1

\* Paths of the events delivered to the handlers: stem and extension as
\* written on disk.
Paths ==
  { [stem |-> "users", ext |-> ".py"],
    [stem |-> "sbdk_config", ext |-> ".json"],
    [stem |-> "notes", ext |-> ".txt"] }

\* str.lower() on the extensions used here
Lower(e) ==
  CASE e = ".PY" -> ".py"
    [] e = ".SQL" -> ".sql"
    [] OTHER -> e

\* Path(p).suffix.lower(): a name that is only a leading-dot word has no suffix
Suffix(p) == IF p.stem = "" THEN "" ELSE Lower(p.ext)

\* str.endswith(ext) for the extension tuples of run.py and dev.py
EndsWith(p, e) == p.ext = e

\* relevant_extensions of CleanFileHandler.on_modified and of the starter
relevant_extensions == {".py", ".sql", ".yml", ".yaml", ".json"}

\* the extension tuple of run.py / dev.py
watched_suffixes == {".py", ".sql", ".yml", ".yaml"}

VARIABLES
  handler,            \* which watch program is running
  pc,                 \* position of the main thread
  observing,          \* observer started and not stopped
  now,                \* time.time()
  last_triggered,     \* handler.last_triggered (run.py: last_run)
  pending_files,      \* CleanFileHandler.pending_files
  file_changes,       \* state.file_changes (paths, oldest first)
  pipeline_running,   \* state.pipeline_running
  total_runs,         \* state.total_runs
  successful_runs,    \* state.successful_runs
  last_run_success,   \* state.last_run_success: "none", "ok", "failed"
  auto_run,           \* state.auto_run (VisualCLI: state.auto_run_enabled)
  file_watcher,       \* VisualCLI.file_watcher is not None
  file_watch_active,  \* VisualCLI.state.file_watch_active
  pending_manual_run, \* state.pending_manual_run
  spawned,            \* run threads started that have not yet run start_pipeline_run
  executing,          \* pipeline+transform executions in flight
  hist,               \* history record (bookkeeping for the properties)
  os_environ,         \* os.environ of the process that drives dbt
  sys_prefix,         \* sys.prefix of the running interpreter
  fs,                 \* paths that exist on the filesystem
  dbt_module,         \* `python -m dbt --version` exits 0
  runner,             \* the dbt runner object and the result of its last call
  cli,                \* a one-shot CLI command: position, steps, exit code
  web,                \* the webhook server: its stores and its last response
  conf                \* a project configuration: written, found, loaded

stateVars ==
  <<pipeline_running, total_runs, successful_runs, last_run_success,
    auto_run, pending_manual_run, file_changes>>
handlerVars == <<last_triggered, pending_files>>
threadVars == <<spawned, executing>>
visualVars == <<file_watcher, file_watch_active>>
watchVars ==
  <<handler, pc, observing, now, handlerVars, stateVars, threadVars,
    visualVars, hist>>
dbtVars == <<os_environ, sys_prefix, fs, dbt_module, runner>>
toolVars == <<dbtVars, cli, web, conf>>
vars == <<watchVars, toolVars>>

\* ---------------------------------------------------------------- history
\* hist records what the properties below speak about; no action reads it
\* except to bound the number of events and of runs.
\*   events            events delivered so far
\*   runs              runs started so far (initial, automatic, manual)
\*   last_op           what the last step did
\*   last_relevant_at  time of the last event with an allow-listed extension
\*   last_trigger_at   time of the last event that passed the debounce check
\*   burst_at          time of the first event of the current burst (-1: none)
\*   burst_runs        runs started by file events since burst_at
\*   changed_in_run    a relevant change passed the debounce check while a
\*                     run was in flight, and no run has started since
\*   rerun_failed      a run started by the watch loop has failed
Relevant(p, d) == ~d /\ Suffix(p) \in relevant_extensions

Quiet == now - hist.last_relevant_at >= debounce_seconds[handler]
IdleLoop == executing = 0 /\ spawned = 0 /\ auto_run

Note(op) == [hist EXCEPT !.last_op = op]
NoteRun(op) == [hist EXCEPT !.last_op = op, !.runs = @ + 1, !.changed_in_run = FALSE]
\* auto-run was toggled: the burst being followed ends
NoteToggle(op) == [hist EXCEPT !.last_op = op, !.burst_at = -1]
NoteFinish(success) ==
  [hist EXCEPT !.last_op = IF success THEN "run_ok" ELSE "run_failed",
               !.rerun_failed = @ \/ ~success]
\* an event was delivered: rel = its extension is allow-listed, passed = it
\* passed the debounce check, started = it started a run
NoteEvent(op, rel, passed, started) ==
  LET opens == rel /\ IdleLoop /\ Quiet IN
  [hist EXCEPT !.last_op = op,
               !.events = @ + 1,
               !.last_relevant_at = IF rel THEN now ELSE @,
               !.last_trigger_at = IF passed THEN now ELSE @,
               !.burst_at = IF opens THEN now ELSE @,
               !.burst_runs = IF opens THEN (IF started THEN 1 ELSE 0)
                              ELSE IF started THEN @ + 1 ELSE @,
               !.changed_in_run = @ \/ (rel /\ passed /\ executing > 0)]
\* the same, for a handler that runs the pipeline in place
NoteEventRun(op, rel) ==
  [NoteEvent(op, rel, TRUE, TRUE) EXCEPT !.runs = @ + 1, !.changed_in_run = FALSE]

\* a[-n:]
LastN(s, n) == IF Len(s) <= n THEN s ELSE SubSeq(s, Len(s) - n + 1, Len(s))

\* the orders in which a Python set of paths can be iterated
Orders(S) ==
  { q \in [1..Cardinality(S) -> S] : \A i, j \in 1..Cardinality(S) : i # j => q[i] # q[j] }

\* the model's bound on the number of runs: a step that would start one more
\* is not taken
CanStart == hist.runs + spawned < MaxRuns

Live == pc \notin {"stopped", "exited"}

\* ------------------------------------------------------------------------
\* ServerState (sbdk-dev/sbdk/cli/commands/start.py)
\* ------------------------------------------------------------------------

\* ServerState.add_file_change for each path of order q, in turn
add_file_changes(fc, q) == LastN(fc \o q, KeepChanges)

\* Mutation of start_pipeline_run: the pending flag survives the start
start_pipeline_run_keeps_pending ==
  /\ pipeline_running' = TRUE
  /\ total_runs' = total_runs + 1
  /\ UNCHANGED pending_manual_run

\* ServerState.start_pipeline_run
start_pipeline_run ==
  /\ pipeline_running' = TRUE
  /\ total_runs' = total_runs + 1
  /\ pending_manual_run' = FALSE

\* Mutation of finish_pipeline_run: a failed run leaves the flag set
finish_pipeline_run_stuck(success) ==
  /\ pipeline_running' = ~success
  /\ last_run_success' = IF success THEN "ok" ELSE "failed"
  /\ successful_runs' = IF success THEN successful_runs + 1 ELSE successful_runs

\* ServerState.finish_pipeline_run(success)
finish_pipeline_run(success) ==
  /\ pipeline_running' = FALSE
  /\ last_run_success' = IF success THEN "ok" ELSE "failed"
  /\ successful_runs' = IF success THEN successful_runs + 1 ELSE successful_runs

\* ------------------------------------------------------------------------
\* CleanFileHandler (sbdk-dev/sbdk/cli/commands/start.py)
\* ------------------------------------------------------------------------

\* CleanFileHandler._run_pipeline: the guard on the flag, then Thread.start();
\* the flag itself is set later, by the thread
Clean_run_pipeline ==
  IF pipeline_running
    THEN spawned' = spawned
    ELSE CanStart /\ spawned' = spawned + 1

\* CleanFileHandler._process_changes on the pending set pf
Clean_process_changes(pf) ==
  IF pf = {}
    THEN /\ pending_files' = pf
         /\ UNCHANGED <<stateVars, threadVars>>
         /\ hist' = NoteEvent("nothing_pending", TRUE, TRUE, FALSE)
    ELSE /\ \E q \in Orders(pf) : file_changes' = add_file_changes(file_changes, q)
         /\ pending_files' = {}
         /\ IF auto_run /\ ~pipeline_running
              THEN /\ Clean_run_pipeline
                   /\ UNCHANGED pending_manual_run
                   /\ hist' = NoteEvent("auto_run", TRUE, TRUE, TRUE)
              ELSE IF ~pipeline_running
                THEN /\ pending_manual_run' = TRUE
                     /\ UNCHANGED spawned
                     /\ hist' = NoteEvent("hint", TRUE, TRUE, FALSE)
                ELSE /\ UNCHANGED <<pending_manual_run, spawned>>
                     /\ hist' = NoteEvent("shown_only", TRUE, TRUE, FALSE)
         /\ UNCHANGED <<pipeline_running, total_runs, successful_runs,
                        last_run_success, auto_run, executing>>

\* CleanFileHandler.on_modified(event), event.src_path = p, event.is_directory = d
Clean_on_modified(p, d) ==
  /\ handler = "clean" /\ observing /\ Live
  /\ hist.events < MaxEvents
  /\ IF d \/ Suffix(p) \notin relevant_extensions
       THEN /\ UNCHANGED <<handlerVars, stateVars, threadVars>>
            /\ hist' = NoteEvent("ignored", Relevant(p, d), FALSE, FALSE)
       ELSE IF now - last_triggered < debounce_seconds[handler]
         THEN /\ pending_files' = pending_files \cup {p}
              /\ UNCHANGED <<last_triggered, stateVars, threadVars>>
              /\ hist' = NoteEvent("debounced", TRUE, FALSE, FALSE)
         ELSE /\ last_triggered' = now
              /\ Clean_process_changes(pending_files \cup {p})
  /\ UNCHANGED <<visualVars, handler, pc, observing, now>>
  /\ UNCHANGED toolVars

\* CleanFileHandler._run_pipeline_sync, first statement: the thread marks
\* the run as started
Clean_run_pipeline_sync_start ==
  /\ handler = "clean" /\ Live
  /\ spawned > 0
  /\ spawned' = spawned - 1
  /\ executing' = executing + 1
  /\ start_pipeline_run
  /\ hist' = NoteRun("run_started")
  /\ UNCHANGED <<visualVars, handler, pc, observing, now, handlerVars, successful_runs,
                 last_run_success, auto_run, file_changes>>
  /\ UNCHANGED toolVars

\* Two spawned threads run start_pipeline_run together: nothing locks the
\* state, and the `self.total_runs += 1` of both reads the same value.
\* Followed where the threads are left to run (SpecLive).
Clean_run_pipeline_sync_start_together ==
  /\ handler = "clean" /\ Live
  /\ spawned > 1
  /\ spawned' = spawned - 2
  /\ executing' = executing + 2
  /\ start_pipeline_run
  /\ hist' = [NoteRun("run_started") EXCEPT !.runs = hist.runs + 2]
  /\ UNCHANGED <<visualVars, handler, pc, observing, now, handlerVars, successful_runs,
                 last_run_success, auto_run, file_changes>>
  /\ UNCHANGED toolVars

\* CleanFileHandler._run_pipeline_sync, cli_dev() returned (success) or raised
Clean_run_pipeline_sync_finish(success) ==
  /\ handler = "clean" /\ Live /\ pc # "initial_run"
  /\ executing > 0
  /\ executing' = executing - 1
  /\ finish_pipeline_run(success)
  /\ hist' = NoteFinish(success)
  /\ UNCHANGED <<visualVars, handler, pc, observing, now, handlerVars, total_runs,
                 auto_run, pending_manual_run, file_changes, spawned>>
  /\ UNCHANGED toolVars

\* CleanFileHandler.run_pipeline_manual
run_pipeline_manual ==
  IF pipeline_running
    THEN /\ UNCHANGED spawned
         /\ hist' = Note("manual_refused")
    ELSE /\ Clean_run_pipeline
         /\ hist' = Note("manual_run")

\* ------------------------------------------------------------------------
\* cli_start (sbdk-dev/sbdk/cli/commands/start.py)
\* ------------------------------------------------------------------------

\* cli_start up to the initial run
Clean_cli_start(no_initial_run) ==
  /\ handler = "clean" /\ pc = "start"
  /\ IF no_initial_run
       THEN /\ pc' = "setup"
            /\ UNCHANGED <<stateVars, executing>>
       ELSE /\ pc' = "initial_run"
            /\ start_pipeline_run
            /\ executing' = executing + 1
            /\ UNCHANGED <<successful_runs, last_run_success, auto_run, file_changes>>
  /\ hist' = IF no_initial_run THEN Note("cli_start") ELSE NoteRun("cli_start")
  /\ UNCHANGED <<visualVars, handler, observing, now, handlerVars, spawned>>
  /\ UNCHANGED toolVars

\* cli_start: the initial cli_dev() returned or raised; on failure
\* Confirm.ask("Continue anyway?") answers go_on
Clean_initial_run_done(success, go_on) ==
  /\ handler = "clean" /\ pc = "initial_run"
  /\ finish_pipeline_run(success)
  /\ executing' = executing - 1
  /\ pc' = IF success \/ go_on THEN "setup" ELSE "exited"
  /\ hist' = Note(IF success THEN "initial_ok" ELSE "initial_failed")
  /\ UNCHANGED <<visualVars, handler, observing, now, handlerVars, total_runs, auto_run,
                 pending_manual_run, file_changes, spawned>>
  /\ UNCHANGED toolVars

\* cli_start: schedule the watched paths that exist, start the observer
Clean_setup_watcher(any_path_exists) ==
  /\ handler = "clean" /\ pc = "setup"
  /\ IF any_path_exists
       THEN pc' = "prompt" /\ observing' = TRUE
       ELSE pc' = "exited" /\ UNCHANGED observing
  /\ hist' = Note("setup")
  /\ UNCHANGED <<visualVars, handler, now, handlerVars, stateVars, threadVars>>
  /\ UNCHANGED toolVars

Commands == {"q", "s", "r", "a", "c"}

\* cli_start.handle_command(cmd) and, for 'q', the finally block
\* (observer.stop(); observer.join()); "s" stands for the display-only
\* commands s, l, h, '' and the unknown ones
handle_command(cmd) ==
  /\ handler = "clean" /\ pc = "prompt"
  /\ CASE cmd = "q" ->
            /\ pc' = "stopped" /\ observing' = FALSE
            /\ hist' = Note("quit")
            /\ UNCHANGED <<stateVars, threadVars>>
       [] cmd = "r" ->
            /\ run_pipeline_manual
            /\ UNCHANGED <<pc, observing, stateVars, executing>>
       [] cmd = "a" ->
            /\ auto_run' = ~auto_run
            /\ IF ~auto_run /\ pending_manual_run
                 THEN Clean_run_pipeline /\ hist' = NoteToggle("auto_on_run")
                 ELSE UNCHANGED spawned
                      /\ hist' = NoteToggle(IF auto_run THEN "auto_off" ELSE "auto_on")
            /\ UNCHANGED <<pc, observing, pipeline_running, total_runs,
                           successful_runs, last_run_success,
                           pending_manual_run, file_changes, executing>>
       [] cmd = "c" ->
            /\ file_changes' = <<>>
            /\ pending_manual_run' = FALSE
            /\ hist' = Note("cleared")
            /\ UNCHANGED <<pc, observing, pipeline_running, total_runs,
                           successful_runs, last_run_success, auto_run,
                           threadVars>>
       [] OTHER ->
            /\ hist' = Note("shown")
            /\ UNCHANGED <<pc, observing, stateVars, threadVars>>
  /\ UNCHANGED <<visualVars, handler, now, handlerVars>>
  /\ UNCHANGED toolVars

\* cli_start's prompt loop: KeyboardInterrupt is caught inside the loop
\* (a hint is printed and the loop goes on); EOFError breaks out of it
Clean_prompt_interrupt(kind) ==
  /\ handler = "clean" /\ pc = "prompt"
  /\ IF kind = "EOFError"
       THEN pc' = "stopped" /\ observing' = FALSE /\ hist' = Note("eof")
       ELSE UNCHANGED <<pc, observing>> /\ hist' = Note("sigint")
  /\ UNCHANGED <<visualVars, handler, now, handlerVars, stateVars, threadVars>>
  /\ UNCHANGED toolVars

\* ------------------------------------------------------------------------
\* The handlers that run the pipeline inside on_modified, on the observer
\* thread: while one runs, the observer delivers no further event.
\* ------------------------------------------------------------------------
SyncHandlers == {"starter", "run", "dev"}

\* the handler starts the pipeline (cli_dev() / execute_pipeline()) in place
Sync_start_run(rel) ==
  /\ CanStart
  /\ executing' = executing + 1
  /\ hist' = NoteEventRun("auto_run", rel)

\* PipelineHandler.on_modified (sbdk-starter/cli/start.py)
Starter_on_modified(p, d) ==
  /\ handler = "starter" /\ observing /\ Live /\ executing = 0
  /\ hist.events < MaxEvents
  /\ IF d
       THEN /\ UNCHANGED <<last_triggered, executing>>
            /\ hist' = NoteEvent("ignored", FALSE, FALSE, FALSE)
       ELSE IF now - last_triggered < debounce_seconds[handler]
         THEN /\ UNCHANGED <<last_triggered, executing>>
              /\ hist' = NoteEvent("debounced", Relevant(p, d), FALSE, FALSE)
         ELSE /\ last_triggered' = now
              /\ IF Suffix(p) \in relevant_extensions
                   THEN Sync_start_run(TRUE)
                   ELSE /\ UNCHANGED executing
                        /\ hist' = NoteEvent("ignored", FALSE, TRUE, FALSE)
  /\ UNCHANGED <<visualVars, handler, pc, observing, now, pending_files, stateVars, spawned>>
  /\ UNCHANGED toolVars

\* Mutation of Run_on_modified: a window that every event restarts
Run_on_modified_restarting(p, d) ==
  /\ handler = "run" /\ observing /\ Live /\ executing = 0
  /\ hist.events < MaxEvents
  /\ IF d \/ ~(\E e \in watched_suffixes : EndsWith(p, e))
       THEN /\ UNCHANGED <<last_triggered, executing>>
            /\ hist' = NoteEvent("ignored", Relevant(p, d), FALSE, FALSE)
       ELSE IF now - last_triggered < debounce_seconds[handler]
         THEN /\ last_triggered' = now
              /\ UNCHANGED executing
              /\ hist' = NoteEvent("debounced", Relevant(p, d), FALSE, FALSE)
         ELSE /\ last_triggered' = now
              /\ Sync_start_run(Relevant(p, d))
  /\ UNCHANGED <<visualVars, handler, pc, observing, now, pending_files, stateVars, spawned>>
  /\ UNCHANGED toolVars

\* PipelineFileHandler.on_modified (sbdk/cli/commands/run.py); last_run and
\* last_triggered are always assigned together
Run_on_modified(p, d) ==
  /\ handler = "run" /\ observing /\ Live /\ executing = 0
  /\ hist.events < MaxEvents
  /\ IF d \/ ~(\E e \in watched_suffixes : EndsWith(p, e))
       THEN /\ UNCHANGED <<last_triggered, executing>>
            /\ hist' = NoteEvent("ignored", Relevant(p, d), FALSE, FALSE)
       ELSE IF now - last_triggered < debounce_seconds[handler]
         THEN /\ UNCHANGED <<last_triggered, executing>>
              /\ hist' = NoteEvent("debounced", Relevant(p, d), FALSE, FALSE)
         ELSE /\ last_triggered' = now
              /\ Sync_start_run(Relevant(p, d))
  /\ UNCHANGED <<visualVars, handler, pc, observing, now, pending_files, stateVars, spawned>>
  /\ UNCHANGED toolVars

\* DevFileHandler.on_modified (sbdk/cli/commands/dev.py)
Dev_on_modified(p, d) ==
  /\ handler = "dev" /\ observing /\ Live /\ executing = 0
  /\ hist.events < MaxEvents
  /\ IF d \/ ~(\E e \in watched_suffixes : EndsWith(p, e))
       THEN /\ UNCHANGED <<last_triggered, executing>>
            /\ hist' = NoteEvent("ignored", Relevant(p, d), FALSE, FALSE)
       ELSE IF now - last_triggered > debounce_seconds[handler]
         THEN /\ last_triggered' = now
              /\ Sync_start_run(Relevant(p, d))
         ELSE /\ UNCHANGED <<last_triggered, executing>>
              /\ hist' = NoteEvent("debounced", Relevant(p, d), FALSE, FALSE)
  /\ UNCHANGED <<visualVars, handler, pc, observing, now, pending_files, stateVars, spawned>>
  /\ UNCHANGED toolVars

\* the pipeline started by on_modified returned or failed: starter and run.py
\* catch Exception around it, dev.py's execute_pipeline reports the failure
\* itself; on_modified returns
Sync_run_done(success) ==
  /\ handler \in SyncHandlers /\ Live /\ pc # "initial_run"
  /\ executing > 0
  /\ executing' = executing - 1
  /\ hist' = NoteFinish(success)
  /\ UNCHANGED <<visualVars, handler, pc, observing, now, handlerVars, stateVars, spawned>>
  /\ UNCHANGED toolVars

\* cli_start (starter), cli_run with --watch, dev with --watch: the initial run
Sync_cli_start(no_initial_run) ==
  /\ handler \in SyncHandlers /\ pc = "start"
  /\ IF handler = "starter" /\ no_initial_run
       THEN /\ pc' = "setup"
            /\ UNCHANGED executing
            /\ hist' = Note("cli_start")
       ELSE /\ pc' = "initial_run"
            /\ executing' = executing + 1
            /\ hist' = NoteRun("cli_start")
  /\ UNCHANGED <<visualVars, handler, observing, now, handlerVars, stateVars, spawned>>
  /\ UNCHANGED toolVars

\* the initial run returned or failed: the starter's bare except goes on,
\* dev.py's execute_pipeline reports and returns, cli_run lets typer.Exit(1)
\* end the command
Sync_initial_run_done(success) ==
  /\ handler \in SyncHandlers /\ pc = "initial_run"
  /\ executing' = executing - 1
  /\ pc' = IF handler = "run" /\ ~success THEN "exited" ELSE "setup"
  /\ hist' = Note(IF success THEN "initial_ok" ELSE "initial_failed")
  /\ UNCHANGED <<visualVars, handler, observing, now, handlerVars, stateVars, spawned>>
  /\ UNCHANGED toolVars

\* schedule the paths that exist and start the observer: the starter exits
\* when none exists, cli_run starts an observer that watches nothing, dev
\* watches "."
Sync_setup_watcher(any_path_exists) ==
  /\ handler \in SyncHandlers /\ pc = "setup"
  /\ IF handler = "starter" /\ ~any_path_exists
       THEN pc' = "exited" /\ UNCHANGED observing
       ELSE pc' = "watching" /\ observing' = (any_path_exists \/ handler = "dev")
  /\ hist' = Note("setup")
  /\ UNCHANGED <<visualVars, handler, now, handlerVars, stateVars, threadVars>>
  /\ UNCHANGED toolVars

\* Mutation of Sync_interrupt: the observer is left running
Sync_interrupt_no_stop ==
  /\ handler \in SyncHandlers /\ pc = "watching"
  /\ pc' = "joining"
  /\ hist' = Note("sigint")
  /\ UNCHANGED <<visualVars, handler, observing, now, handlerVars, stateVars, threadVars>>
  /\ UNCHANGED toolVars

\* KeyboardInterrupt in the sleep loop: observer.stop()
Sync_interrupt ==
  /\ handler \in SyncHandlers /\ pc = "watching"
  /\ pc' = "joining"
  /\ observing' = FALSE
  /\ hist' = Note("sigint")
  /\ UNCHANGED <<visualVars, handler, now, handlerVars, stateVars, threadVars>>
  /\ UNCHANGED toolVars

\* observer.join() returns once the observer thread has left its handler
Sync_join ==
  /\ handler \in SyncHandlers /\ pc = "joining"
  /\ executing = 0
  /\ pc' = "stopped"
  /\ hist' = Note("joined")
  /\ UNCHANGED <<visualVars, handler, observing, now, handlerVars, stateVars, threadVars>>
  /\ UNCHANGED toolVars

\* ------------------------------------------------------------------------
\* ServerStateManager, PipelineFileHandler and CleanFileHandler of
\* sbdk/cli/commands/start.py: single-threaded, the run is a time.sleep(0.1)
\* between the start and the end of the run; pc is "idle" between calls.
\* ------------------------------------------------------------------------

\* ServerStateManager.start_pipeline_run
Mgr_start_pipeline_run ==
  /\ pipeline_running' = TRUE
  /\ total_runs' = total_runs + 1

\* ServerStateManager.add_file_change
Mgr_add_file_change(fc, p) == Append(fc, p)

\* PipelineFileHandler.on_modified, up to the sleep inside run_pipelines
Mgr_on_modified(p, d) ==
  /\ handler = "mgr" /\ pc = "idle"
  /\ hist.events < MaxEvents
  /\ IF d
       THEN /\ UNCHANGED <<pc, stateVars, executing>>
            /\ hist' = NoteEvent("ignored", FALSE, FALSE, FALSE)
       ELSE /\ file_changes' = Mgr_add_file_change(file_changes, p)
            /\ IF auto_run /\ ~pipeline_running
                 THEN /\ CanStart
                      /\ Mgr_start_pipeline_run
                      /\ executing' = executing + 1
                      /\ pc' = "run_pipelines"
                      /\ hist' = NoteEventRun("auto_run", Relevant(p, d))
                 ELSE /\ UNCHANGED <<pc, pipeline_running, total_runs, executing>>
                      /\ hist' = NoteEvent("shown_only", Relevant(p, d), TRUE, FALSE)
            /\ UNCHANGED <<successful_runs, last_run_success, auto_run,
                           pending_manual_run>>
  /\ UNCHANGED <<visualVars, handler, observing, now, handlerVars, spawned>>
  /\ UNCHANGED toolVars

\* PipelineFileHandler.on_created
Mgr_on_created(p, d) ==
  /\ handler = "mgr" /\ pc = "idle"
  /\ hist.events < MaxEvents
  /\ file_changes' = IF d THEN file_changes ELSE Mgr_add_file_change(file_changes, p)
  /\ hist' = NoteEvent(IF d THEN "ignored" ELSE "shown_only", Relevant(p, d), FALSE, FALSE)
  /\ UNCHANGED <<visualVars, handler, pc, observing, now, handlerVars, pipeline_running,
                 total_runs, successful_runs, last_run_success, auto_run,
                 pending_manual_run, threadVars>>
  /\ UNCHANGED toolVars

\* PipelineFileHandler.run_pipelines after the sleep:
\* ServerStateManager.end_pipeline_run(success=True)
Mgr_run_pipelines_done ==
  /\ handler = "mgr" /\ pc = "run_pipelines"
  /\ pipeline_running' = FALSE
  /\ executing' = executing - 1
  /\ pc' = "idle"
  /\ hist' = Note("run_ok")
  /\ UNCHANGED <<visualVars, handler, observing, now, handlerVars, total_runs,
                 successful_runs, last_run_success, auto_run,
                 pending_manual_run, file_changes, spawned>>
  /\ UNCHANGED toolVars

\* CleanFileHandler.run_pipeline_manual (sbdk/cli/commands/start.py), up to
\* the sleep
Mgr_run_pipeline_manual ==
  /\ handler = "mgr" /\ pc = "idle"
  /\ IF pipeline_running
       THEN /\ UNCHANGED <<pc, pipeline_running, total_runs, executing>>
            /\ hist' = Note("manual_refused")
       ELSE /\ CanStart
            /\ Mgr_start_pipeline_run
            /\ executing' = executing + 1
            /\ pc' = "run_pipeline_manual"
            /\ hist' = NoteRun("manual_run")
  /\ UNCHANGED <<visualVars, handler, observing, now, handlerVars, successful_runs,
                 last_run_success, auto_run, pending_manual_run, file_changes,
                 spawned>>
  /\ UNCHANGED toolVars

\* run_pipeline_manual after the sleep:
\* ServerStateManager.finish_pipeline_run(True)
Mgr_run_pipeline_manual_done ==
  /\ handler = "mgr" /\ pc = "run_pipeline_manual"
  /\ pipeline_running' = FALSE
  /\ last_run_success' = "ok"
  /\ successful_runs' = successful_runs + 1
  /\ executing' = executing - 1
  /\ pc' = "idle"
  /\ hist' = Note("run_ok")
  /\ UNCHANGED <<visualVars, handler, observing, now, handlerVars, total_runs, auto_run,
                 pending_manual_run, file_changes, spawned>>
  /\ UNCHANGED toolVars

\* ------------------------------------------------------------------------
\* VisualCLI and FileWatcher of sbdk/cli/visual_cli_robust.py: observing is
\* FileWatcher.running, every pipeline run is a daemon thread, and there is
\* no running flag.
\* ------------------------------------------------------------------------

\* VisualCLI.setup_file_watching, FileWatcher.start
setup_file_watching(any_path_exists) ==
  IF any_path_exists
    THEN file_watcher' = TRUE /\ observing' = TRUE /\ file_watch_active' = TRUE
    ELSE UNCHANGED <<file_watcher, observing, file_watch_active>>

\* VisualCLI.initialize
Visual_initialize(any_path_exists) ==
  /\ handler = "visual" /\ pc = "start"
  /\ pc' = "main_loop"
  /\ IF auto_run
       THEN setup_file_watching(any_path_exists)
       ELSE UNCHANGED <<file_watcher, observing, file_watch_active>>
  /\ hist' = Note("setup")
  /\ UNCHANGED <<handler, now, handlerVars, stateVars, threadVars>>
  /\ UNCHANGED toolVars

\* FileWatcher._watch_loop sees a newer mtime of p (it polls *.py and *.sql
\* only) and calls VisualCLI._on_file_changed
Visual_on_file_changed(p) ==
  /\ handler = "visual" /\ pc = "main_loop" /\ observing
  /\ hist.events < MaxEvents
  /\ IF Suffix(p) \in {".py", ".sql"} /\ auto_run
       THEN /\ CanStart
            /\ spawned' = spawned + 1
            /\ hist' = NoteEvent("auto_run", Relevant(p, FALSE), TRUE, TRUE)
       ELSE /\ UNCHANGED spawned
            /\ hist' = NoteEvent("ignored", Relevant(p, FALSE), FALSE, FALSE)
  /\ UNCHANGED <<handler, pc, observing, now, handlerVars, stateVars,
                 executing, visualVars>>
  /\ UNCHANGED toolVars

\* VisualCLI._run_pipeline_background: the thread starts
Visual_run_pipeline_background_start ==
  /\ handler = "visual" /\ pc = "main_loop"
  /\ spawned > 0
  /\ spawned' = spawned - 1
  /\ executing' = executing + 1
  /\ hist' = NoteRun("run_started")
  /\ UNCHANGED <<handler, pc, observing, now, handlerVars, stateVars, visualVars>>
  /\ UNCHANGED toolVars

\* ... and returns: last_pipeline_run on success, error_message otherwise
Visual_run_pipeline_background_finish(success) ==
  /\ handler = "visual" /\ pc = "main_loop"
  /\ executing > 0
  /\ executing' = executing - 1
  /\ last_run_success' = IF success THEN "ok" ELSE "failed"
  /\ hist' = NoteFinish(success)
  /\ UNCHANGED <<handler, pc, observing, now, handlerVars, pipeline_running,
                 total_runs, successful_runs, auto_run, pending_manual_run,
                 file_changes, spawned, visualVars>>
  /\ UNCHANGED toolVars

Keys == {"q", "r", "a", "m"}

\* VisualCLI.handle_keyboard_input(key) in navigation mode and, for 'q' and
\* Ctrl-C, the end of main_loop and cleanup(); "m" stands for the keys that
\* change the view
Visual_handle_keyboard_input(key, any_path_exists) ==
  /\ handler = "visual" /\ pc = "main_loop"
  /\ CASE key = "q" ->
            /\ pc' = "stopped"
            /\ observing' = FALSE
            /\ hist' = Note("quit")
            /\ UNCHANGED <<auto_run, spawned, visualVars>>
       [] key = "r" ->
            /\ CanStart
            /\ spawned' = spawned + 1
            /\ hist' = Note("manual_run")
            /\ UNCHANGED <<pc, observing, auto_run, visualVars>>
       [] key = "a" ->
            /\ auto_run' = ~auto_run
            /\ IF ~auto_run /\ ~file_watcher
                 THEN setup_file_watching(any_path_exists)
                 ELSE IF auto_run /\ file_watcher
                   THEN /\ observing' = FALSE
                        /\ file_watch_active' = FALSE
                        /\ UNCHANGED file_watcher
                   ELSE UNCHANGED <<observing, visualVars>>
            /\ hist' = NoteToggle(IF auto_run THEN "auto_off" ELSE "auto_on")
            /\ UNCHANGED <<pc, spawned>>
       [] OTHER ->
            /\ hist' = Note("shown")
            /\ UNCHANGED <<pc, observing, auto_run, spawned, visualVars>>
  /\ UNCHANGED <<handler, now, handlerVars, pipeline_running, total_runs,
                 successful_runs, last_run_success, pending_manual_run,
                 file_changes, executing>>
  /\ UNCHANGED toolVars

\* KeyboardInterrupt in main_loop, or _handle_interrupt: state.running is
\* cleared, cleanup() stops the watcher
Visual_interrupt ==
  /\ handler = "visual" /\ pc = "main_loop"
  /\ pc' = "stopped"
  /\ observing' = FALSE
  /\ hist' = Note("sigint")
  /\ UNCHANGED <<handler, now, handlerVars, stateVars, threadVars, visualVars>>
  /\ UNCHANGED toolVars

\* =================================================== the transform runner
\* Paths are sequences of components: <<"/", "usr", "bin">> is /usr/bin,
\* <<"~", ".dbt">> is ~/.dbt, <<"profiles">> is the relative path profiles and
\* <<>> is Path(".") (and stands for None where an argument is optional).
None == <<>>
HOME == <<"/", "home">>
Venv == <<"/", "venv">>
Usr == <<"/", "usr">>
OptBin == <<"/", "opt", "bin">>
PkgDir == <<"/", "site", "sbdk", "cli">>
Work == <<"/", "work">>

is_absolute(p) == p # <<>> /\ p[1] = "/"
parent(p) ==
  IF Len(p) > 1 THEN SubSeq(p, 1, Len(p) - 1)
  ELSE IF is_absolute(p) THEN p ELSE <<>>
expanduser(p) == IF p # <<>> /\ p[1] = "~" THEN HOME \o Tail(p) ELSE p
resolve(p, cwd) == IF is_absolute(p) THEN p ELSE cwd \o p
exists(p, cwd) == resolve(p, cwd) \in fs

\* os.environ as a function from the names that are set to their values;
\* the value of PATH is the sequence of its ":"-separated entries
Get(env, name, default) == IF name \in DOMAIN env THEN env[name] ELSE default
Put(env, name, value) ==
  [n \in DOMAIN env \cup {name} |-> IF n = name THEN value ELSE env[n]]
Update(env, extra) ==
  [n \in DOMAIN env \cup DOMAIN extra |->
     IF n \in DOMAIN extra THEN extra[n] ELSE env[n]]

\* shutil.which("dbt"): the first PATH entry that holds an executable dbt
RECURSIVE FirstWith(_, _)
FirstWith(candidates, files) ==
  IF candidates = <<>> THEN None
  ELSE IF Head(candidates) \in files THEN Head(candidates)
  ELSE FirstWith(Tail(candidates), files)
which(cwd) ==
  LET path == Get(os_environ, "PATH", <<>>)
  IN FirstWith([i \in 1..Len(path) |-> resolve(path[i], cwd) \o <<"dbt">>], fs)

uv_paths ==
  << HOME \o <<".local", "bin", "dbt">>,
     HOME \o <<".cargo", "bin", "dbt">>,
     <<"/", "usr", "local", "bin", "dbt">> >>

\* dbt_utils.find_dbt_executable: the executable, or None where it raises
\* RuntimeError("dbt executable not found. Install with: uv add dbt-duckdb")
find_dbt_executable(cwd) ==
  LET prefix_dbt == sys_prefix \o <<"bin", "dbt">>
      venv_path == Get(os_environ, "VIRTUAL_ENV", None)
      venv_dbt == venv_path \o <<"bin", "dbt">>
      uv_dbt == FirstWith(uv_paths, fs)
      system_dbt == which(cwd)
  IN IF prefix_dbt \in fs THEN prefix_dbt
     ELSE IF venv_path # None /\ exists(venv_dbt, cwd) THEN venv_dbt
     ELSE IF uv_dbt # None THEN uv_dbt
     ELSE IF system_dbt # None THEN system_dbt
     ELSE None

\* what run_dbt_fixed falls back to: [sys.executable, "-m", "dbt"]
PythonModule == <<"python", "-m", "dbt">>

\* DBTRunner._find_dbt_executable: the executable, PythonModule, or None
\* where it raises FileNotFoundError with the install instructions
DBTRunner_find_dbt_executable(cwd) ==
  LET venv_path == Get(os_environ, "VIRTUAL_ENV", None)
      venv_dbt == venv_path \o <<"bin", "dbt">>
      prefix_dbt == sys_prefix \o <<"bin", "dbt">>
      uv_dbt == FirstWith(uv_paths, fs)
      system_dbt == which(cwd)
  IN IF venv_path # None /\ exists(venv_dbt, cwd) THEN venv_dbt
     ELSE IF prefix_dbt \in fs THEN prefix_dbt
     ELSE IF uv_dbt # None THEN uv_dbt
     ELSE IF system_dbt # None THEN system_dbt
     ELSE IF dbt_module THEN PythonModule
     ELSE None

\* the project marker file
Marker == <<"dbt_project.yml">>
has_marker(dir, cwd) == exists(dir \o Marker, cwd)

\* no runner constructed, nothing run; `call` names the last call, and says
\* whether it repeated the call before it (bookkeeping for the properties)
NoRunner ==
  [impl |-> "none", cwd |-> None, arg_project_dir |-> None,
   arg_profiles_dir |-> None, project_dir |-> None, profiles_dir |-> None,
   dbt_path |-> None, result |-> "none", error |-> "", env |-> <<>>,
   work_dir |-> None, returncode |-> -1, carried_code |-> -1,
   carried_output |-> FALSE, call |-> "none"]

\* A process keeps the working directory it was started in and uses one of
\* the runner implementations.
Started(impls, cwd) ==
  runner.impl = "none" \/ (runner.impl \in impls /\ runner.cwd = cwd)

\* ---- examples/my_project_fixed/run_dbt_fixed.py: class DBTRunner
DefaultProfiles == HOME \o <<".dbt">>

\* DBTRunner._find_profiles_dir; the last branch is the one that creates ~/.dbt
DBTRunner_find_profiles_dir(project_dir, cwd) ==
  LET profiles_dir == Get(os_environ, "DBT_PROFILES_DIR", None)
      project_profiles == project_dir \o <<"profiles">>
  IN IF profiles_dir # None /\ exists(profiles_dir, cwd) THEN profiles_dir
     ELSE IF DefaultProfiles \in fs THEN DefaultProfiles
     ELSE IF exists(project_profiles, cwd) THEN project_profiles
     ELSE DefaultProfiles

\* DBTRunner.__init__(project_dir) of a program started in cwd
DBTRunner_init(cwd, project_dir) ==
  LET dir == IF project_dir # None THEN project_dir ELSE cwd
      dbt_path == DBTRunner_find_dbt_executable(cwd)
      profiles_dir == DBTRunner_find_profiles_dir(dir, cwd)
      made == [NoRunner EXCEPT !.impl = "fixed", !.cwd = cwd,
                 !.arg_project_dir = project_dir, !.project_dir = dir,
                 !.call = IF /\ runner.impl = "fixed"
                             /\ runner.arg_project_dir = project_dir
                            THEN "init_again" ELSE "init"]
  IN /\ Started({"fixed"}, cwd)
     /\ IF dbt_path = None
          THEN /\ runner' = [made EXCEPT !.result = "raised",
                                         !.error = "FileNotFoundError"]
               /\ fs' = fs
          ELSE /\ runner' = [made EXCEPT !.result = "constructed",
                                         !.dbt_path = dbt_path,
                                         !.profiles_dir = profiles_dir]
               /\ fs' = IF profiles_dir = DefaultProfiles
                          THEN fs \cup {DefaultProfiles} ELSE fs
     /\ UNCHANGED <<os_environ, sys_prefix, dbt_module, cli, web, conf, watchVars>>

\* DBTRunner._validate_project_dir: the directory to run in, None where it
\* raises FileNotFoundError("No dbt_project.yml found in ...")
DBTRunner_validate_project_dir(project_dir, cwd) ==
  LET dbt_dir == project_dir \o <<"dbt">>
  IN IF has_marker(project_dir, cwd) THEN project_dir
     ELSE IF exists(dbt_dir, cwd) /\ has_marker(dbt_dir, cwd) THEN dbt_dir
     ELSE None

\* f"{bin_dir}:{PATH}" on the entries of PATH; "" is one empty entry
Prepend(bin_dir, path) == <<bin_dir>> \o path
EmptyPATH == << <<>> >>

\* Mutation of DBTRunner_env: the environment is built in place, on top of
\* what the previous call left behind, not on a copy of os.environ
DBTRunner_env_in_place(profiles_dir) ==
  LET base == IF runner.env # <<>> THEN runner.env ELSE os_environ
      env == Put(base, "DBT_PROFILES_DIR", profiles_dir)
  IN IF "VIRTUAL_ENV" \in DOMAIN os_environ
       THEN Put(env, "PATH",
                Prepend(os_environ["VIRTUAL_ENV"] \o <<"bin">>,
                        Get(env, "PATH", EmptyPATH)))
       ELSE env

\* the environment DBTRunner.run_dbt_command hands to the subprocess
DBTRunner_env(profiles_dir) ==
  LET env == Put(os_environ, "DBT_PROFILES_DIR", profiles_dir)
  IN IF "VIRTUAL_ENV" \in DOMAIN os_environ
       THEN Put(env, "PATH",
                Prepend(os_environ["VIRTUAL_ENV"] \o <<"bin">>,
                        Get(env, "PATH", EmptyPATH)))
       ELSE env

\* the exit codes a dbt subprocess is given here
ExitCodes == {0, 1, 2}

\* DBTRunner.run_dbt_command(command): the subprocess exits with returncode
DBTRunner_run_dbt_command(returncode) ==
  /\ runner.impl = "fixed" /\ runner.dbt_path # None
  /\ LET dir == DBTRunner_validate_project_dir(runner.project_dir, runner.cwd)
         called == [runner EXCEPT !.env = <<>>, !.work_dir = None,
                                  !.returncode = -1, !.carried_code = -1,
                                  !.carried_output = FALSE,
                                  !.call = IF runner.env # <<>>
                                    THEN "run_again" ELSE "run"]
     IN IF dir = None
          THEN runner' = [called EXCEPT !.result = "raised",
                                        !.error = "FileNotFoundError"]
          ELSE LET ran == [called EXCEPT !.project_dir = dir,
                              !.env = DBTRunner_env(runner.profiles_dir),
                              !.work_dir = dir, !.returncode = returncode]
               IN IF returncode # 0
                    THEN runner' = [ran EXCEPT !.result = "raised",
                                       !.error = "CalledProcessError",
                                       !.carried_code = returncode,
                                       !.carried_output = TRUE]
                    ELSE runner' = [ran EXCEPT !.result = "returned",
                                       !.error = "", !.carried_code = 0,
                                       !.carried_output = TRUE]
  /\ UNCHANGED <<os_environ, sys_prefix, fs, dbt_module, cli, web, conf, watchVars>>

\* ---- sbdk-dev/sbdk/cli/dbt_utils.py
\* prepare_dbt_env(extra_env) of a process whose working directory is cwd
prepare_dbt_env(extra_env, cwd) ==
  LET env1 == IF "HOME" \notin DOMAIN os_environ
                THEN Put(os_environ, "HOME", HOME) ELSE os_environ
      profiles_dir == Get(env1, "DBT_PROFILES_DIR", <<"~", ".dbt">>)
      env2 == Put(env1, "DBT_PROFILES_DIR",
                  resolve(expanduser(profiles_dir), cwd))
      prefix_bin == sys_prefix \o <<"bin">>
      env3 == Put(Put(env2, "VIRTUAL_ENV", sys_prefix), "PATH",
                  IF "PATH" \in DOMAIN env2
                    THEN Prepend(prefix_bin, env2["PATH"])
                    ELSE <<prefix_bin>>)
      venv_path == Get(env3, "VIRTUAL_ENV", None)
      venv_bin == venv_path \o <<"bin">>
      env4 == IF venv_path # None
                THEN Put(env3, "PATH",
                         IF "PATH" \in DOMAIN env3
                           THEN Prepend(venv_bin, env3["PATH"])
                           ELSE <<venv_bin>>)
                ELSE env3
  IN Update(env4, extra_env)

\* the directories build_dbt_command and _resolve_project_dir try when no
\* project directory is given
potential_paths(cwd) ==
  << parent(PkgDir) \o <<"dbt">>, parent(parent(PkgDir)) \o <<"dbt">>,
     cwd \o <<"dbt">>, cwd >>

RECURSIVE FirstProject(_, _)
FirstProject(paths, cwd) ==
  IF paths = <<>> THEN cwd
  ELSE IF exists(Head(paths), cwd) /\ has_marker(Head(paths), cwd)
    THEN Head(paths)
  ELSE FirstProject(Tail(paths), cwd)

\* the project path of build_dbt_command, and DbtRunner._resolve_project_dir
resolve_project_dir(project_dir, cwd) ==
  IF project_dir # None THEN resolve(project_dir, cwd)
  ELSE FirstProject(potential_paths(cwd), cwd)

\* run_dbt(dbt_args, project_dir, profiles_dir, check=check) called on top of
\* the record r; the subprocess exits with returncode
run_dbt(r, project_dir, profiles_dir, check, returncode) ==
  LET dbt_executable == find_dbt_executable(r.cwd)
      project_path == resolve_project_dir(project_dir, r.cwd)
      called == [r EXCEPT !.env = <<>>, !.work_dir = None,
                          !.returncode = -1, !.carried_code = -1,
                          !.carried_output = FALSE,
                          !.call = IF r.env # <<>>
                                     THEN "run_again" ELSE "run"]
      ran == [called EXCEPT !.env = prepare_dbt_env(<<>>, r.cwd),
                            !.work_dir = project_path,
                            !.returncode = returncode]
  IN IF dbt_executable = None
       THEN [called EXCEPT !.result = "raised", !.error = "RuntimeError"]
     ELSE IF returncode # 0 /\ check
       THEN [ran EXCEPT !.result = "raised", !.error = "CalledProcessError",
                        !.carried_code = returncode, !.carried_output = TRUE]
     ELSE [ran EXCEPT !.result = "returned", !.error = "",
                      !.carried_code = returncode, !.carried_output = TRUE]

\* DbtRunner.__init__(project_dir, profiles_dir) of a program started in cwd
DbtRunner_init(cwd, project_dir, profiles_dir) ==
  LET dir == resolve_project_dir(project_dir, cwd)
      made == [NoRunner EXCEPT !.impl = "utils", !.cwd = cwd,
                 !.arg_project_dir = project_dir,
                 !.arg_profiles_dir = profiles_dir,
                 !.project_dir = dir,
                 !.profiles_dir = IF profiles_dir # None
                                    THEN resolve(expanduser(profiles_dir), cwd)
                                    ELSE DefaultProfiles,
                 !.call = IF /\ runner.impl = "utils"
                             /\ runner.arg_project_dir = project_dir
                             /\ runner.arg_profiles_dir = profiles_dir
                            THEN "init_again" ELSE "init"]
      dbt_path == find_dbt_executable(cwd)
  IN /\ Started({"utils", "run_dbt"}, cwd)
     /\ runner' =
          IF dir \notin fs
            THEN [made EXCEPT !.result = "raised", !.error = "ValueError"]
          ELSE IF dbt_path = None
            THEN [made EXCEPT !.result = "raised", !.error = "RuntimeError"]
          ELSE [made EXCEPT !.result = "constructed", !.dbt_path = dbt_path]
     /\ UNCHANGED <<os_environ, sys_prefix, fs, dbt_module, cli, web, conf, watchVars>>

\* DbtRunner.run_command(command, check)
DbtRunner_run_command(check, returncode) ==
  /\ runner.impl = "utils" /\ runner.dbt_path # None
  /\ runner' = run_dbt(runner, runner.project_dir, runner.profiles_dir,
                       check, returncode)
  /\ UNCHANGED <<os_environ, sys_prefix, fs, dbt_module, cli, web, conf, watchVars>>

\* the module-level helpers dbt_run(), dbt_test(), ...: run_dbt without a
\* runner object, in a program started in cwd
dbt_run(cwd, project_dir, check, returncode) ==
  /\ Started({"utils", "run_dbt"}, cwd)
  /\ LET same == /\ runner.impl = "run_dbt"
                  /\ runner.arg_project_dir = project_dir
     IN runner' = run_dbt([NoRunner EXCEPT !.impl = "run_dbt", !.cwd = cwd,
                             !.arg_project_dir = project_dir,
                             !.env = IF same THEN runner.env ELSE <<>>,
                             !.work_dir = IF same THEN runner.work_dir
                                          ELSE None],
                          project_dir, None, check, returncode)
  /\ UNCHANGED <<os_environ, sys_prefix, fs, dbt_module, cli, web, conf, watchVars>>

\* ================================================ the one-shot commands
\* cli.cmd is the command: "run" (sbdk/cli/commands/run.py), "dev"
\* (sbdk/cli/commands/dev.py), "cli_dev" (sbdk-dev/sbdk/cli/dev.py), and "ui",
\* the run the interactive interface starts (integration_layer.py).
\*   config       the config file: "ok", "missing", "malformed"
\*   pc           "start" before load_config, "steps" in the pipeline, "done"
\*   todo         the steps still ahead
\*   started, ok  the steps started so far, and whether each succeeded
\*   exit_code    the exit code of the process, -1 while it runs
\*   hint         the message told the user to run `sbdk init`
\*   dbt_failure  how a failed dbt step left execute_pipeline:
\*                "none", "raised", "swallowed"
pipeline_modules == <<"users", "events", "orders">>
Extraction == {"users", "events", "orders"}
Planned(cmd, pipelines_only, dbt_only) ==
  (IF dbt_only THEN <<>> ELSE pipeline_modules)
    \o (IF pipelines_only THEN <<>>
        ELSE IF cmd = "dev" THEN <<"dbt deps", "dbt run">>
        ELSE <<"dbt run", "dbt test">>)

\* raise typer.Exit(code), or an exception nobody catches (code 1)
Exit(c, code) == [c EXCEPT !.pc = "done", !.exit_code = code, !.todo = <<>>]
\* the step at the head of todo ran
Ran(c, success) ==
  [c EXCEPT !.started = Append(@, Head(c.todo)), !.ok = Append(@, success),
            !.todo = Tail(@)]
\* the end of the command once nothing is left to do
\* run --watch goes on to observe the directories after the initial run
Completed(c) ==
  IF c.todo # <<>> THEN c
  ELSE IF c.watch THEN [c EXCEPT !.pc = "watching"]
  ELSE Exit(c, 0)
Loaded(c) ==
  Completed([c EXCEPT !.pc = "steps",
                      !.todo = Planned(c.cmd, c.pipelines_only, c.dbt_only)])
AtStep(cmd, steps) ==
  /\ cli.cmd = cmd /\ cli.pc = "steps"
  /\ cli.todo # <<>> /\ Head(cli.todo) \in steps
TransformSteps == {"dbt deps", "dbt run", "dbt test"}

\* ---- sbdk/cli/commands/run.py
Run_load_config ==
  /\ cli.cmd = "run" /\ cli.pc = "start"
  /\ cli' = CASE cli.config = "ok" -> Loaded(cli)
              [] cli.config = "missing" -> Exit([cli EXCEPT !.hint = TRUE], 1)
              [] OTHER -> Exit(cli, 1)    \* json.JSONDecodeError, uncaught
  /\ UNCHANGED <<dbtVars, web, conf, watchVars>>

Run_run_pipeline_module(returncode) ==
  /\ AtStep("run", Extraction)
  /\ cli' = IF returncode # 0 THEN Exit(Ran(cli, FALSE), 1)
            ELSE Completed(Ran(cli, TRUE))
  /\ UNCHANGED <<dbtVars, web, conf, watchVars>>

\* the dbt part of execute_pipeline; found: a dbt executable is on PATH
Run_dbt(found, returncode) ==
  /\ AtStep("run", TransformSteps)
  /\ cli' = IF ~found THEN Exit(Ran(cli, FALSE), 1)  \* FileNotFoundError
            ELSE IF returncode # 0
              THEN Exit([Ran(cli, FALSE) EXCEPT !.dbt_failure = "raised"], 1)
            ELSE Completed(Ran(cli, TRUE))
  /\ UNCHANGED <<dbtVars, web, conf, watchVars>>

\* PipelineFileHandler.on_modified of run --watch, for a watched file outside
\* the debounce window: execute_pipeline(self.config), whose steps run in
\* order until one fails (n of them started); the exception is caught
PipelineFileHandler_on_modified(path, n, success) ==
  /\ cli.cmd = "run" /\ cli.pc = "watching"
  /\ Len(cli.reruns) < MaxRuns
  /\ \E e \in watched_suffixes : EndsWith(path, e)
  /\ LET plan == Planned("run", FALSE, FALSE) IN
       /\ n \in 1..Len(plan)
       /\ success => n = Len(plan)
       /\ cli' = [cli EXCEPT !.reruns = Append(@, SubSeq(plan, 1, n))]
  /\ UNCHANGED <<dbtVars, web, conf, watchVars>>

\* KeyboardInterrupt in the sleep loop of run --watch
Run_watch_interrupt ==
  /\ cli.cmd = "run" /\ cli.pc = "watching"
  /\ cli' = Exit(cli, 0)
  /\ UNCHANGED <<dbtVars, web, conf, watchVars>>

\* ---- sbdk/cli/commands/dev.py
\* lazy: Dynaconf(settings_files=...) does not read the file when constructed
Dev_load_config(lazy) ==
  /\ cli.cmd = "dev" /\ cli.pc = "start"
  /\ cli' = CASE cli.config = "ok" -> Loaded(cli)
              [] cli.config = "missing" -> Exit([cli EXCEPT !.hint = TRUE], 1)
              [] OTHER -> IF lazy THEN Loaded(cli) ELSE Exit(cli, 1)
  /\ UNCHANGED <<dbtVars, web, conf, watchVars>>

\* one round of the loop over the modules; present: pipelines/<module>.py exists
Dev_run_pipeline_module(present, success) ==
  /\ AtStep("dev", Extraction)
  /\ cli' = IF present THEN Completed(Ran(cli, success))
            ELSE Completed([cli EXCEPT !.todo = Tail(@)])
  /\ UNCHANGED <<dbtVars, web, conf, watchVars>>

Dev_dbt(found, returncode) ==
  /\ AtStep("dev", TransformSteps)
  /\ cli' = IF ~found THEN Exit(Ran(cli, FALSE), 0)
            ELSE IF returncode # 0
              THEN Exit([Ran(cli, FALSE) EXCEPT !.dbt_failure = "swallowed"], 0)
            ELSE Completed(Ran(cli, TRUE))
  /\ UNCHANGED <<dbtVars, web, conf, watchVars>>

\* ---- sbdk-dev/sbdk/cli/dev.py
CliDev_load_config ==
  /\ cli.cmd = "cli_dev" /\ cli.pc = "start"
  /\ cli' = CASE cli.config = "ok" -> Loaded(cli)
              [] cli.config = "missing" -> Exit([cli EXCEPT !.hint = TRUE], 1)
              [] OTHER -> Exit(cli, 1)    \* "Invalid JSON in config file"
  /\ UNCHANGED <<dbtVars, web, conf, watchVars>>

CliDev_run_pipeline_module(returncode) ==
  /\ AtStep("cli_dev", Extraction)
  /\ cli' = IF returncode # 0 THEN Exit(Ran(cli, FALSE), 1)
            ELSE Completed(Ran(cli, TRUE))
  /\ UNCHANGED <<dbtVars, web, conf, watchVars>>

\* constructed: DbtRunner(...) did not raise
CliDev_dbt(constructed, returncode) ==
  /\ AtStep("cli_dev", TransformSteps)
  /\ cli' = IF ~constructed THEN Exit(cli, 1)
            ELSE IF returncode # 0
              THEN Exit([Ran(cli, FALSE) EXCEPT !.dbt_failure = "raised"], 1)
            ELSE Completed(Ran(cli, TRUE))
  /\ UNCHANGED <<dbtVars, web, conf, watchVars>>

\* ---- sbdk/cli/integration_layer.py: one step of _run_pipeline_async
Ui_step(returncode) ==
  /\ AtStep("ui", Extraction \cup TransformSteps)
  /\ cli' = IF returncode # 0 THEN [Ran(cli, FALSE) EXCEPT !.pc = "done"]
            ELSE LET c == Ran(cli, TRUE)
                 IN IF c.todo = <<>> THEN [c EXCEPT !.pc = "done"] ELSE c
  /\ UNCHANGED <<dbtVars, web, conf, watchVars>>

\* ==================================================== the webhook server
\* Two servers answer the same routes: the listener shipped with a project
\* (templates/fastapi_server/webhook_listener.py) and the application the
\* endpoint tests run against (MockFastAPIApp).

\* the 128 random bits uuid.uuid4() draws (os.urandom(16)), as 32
\* hexadecimal digits; the source is taken never to repeat a draw
RandomBits == {[i \in 1..32 |-> n] : n \in {3, 9, 14}}
\* uuid.uuid4(): the version and the variant are written over the draw
uuid4(bits) ==
  [i \in 1..32 |-> IF i = 13 THEN 4
                   ELSE IF i = 17 THEN 8 + (bits[i] % 4)
                   ELSE bits[i]]
HexDigits ==
  <<"0", "1", "2", "3", "4", "5", "6", "7", "8", "9", "a", "b", "c", "d",
    "e", "f">>
\* Mutation of str(UUID): UUID.hex, the digits without the hyphens
uuid_hex(u) == [i \in 1..32 |-> HexDigits[u[i] + 1]]
\* str(UUID): '%032x' of the number, cut 8-4-4-4-12
uuid_str(u) ==
  LET hex == [i \in 1..32 |-> HexDigits[u[i] + 1]]
  IN  SubSeq(hex, 1, 8) \o <<"-">> \o SubSeq(hex, 9, 12) \o <<"-">>
        \o SubSeq(hex, 13, 16) \o <<"-">> \o SubSeq(hex, 17, 20) \o <<"-">>
        \o SubSeq(hex, 21, 32)

NoWeb ==
  [impl |-> "none", REGISTERED_PROJECTS |-> {}, USAGE_LOGS |-> <<>>,
   background_tasks |-> <<>>, webhook_calls |-> <<>>, requests |-> 0,
   endpoint |-> "none", request |-> None, status_code |-> 0,
   status |-> "none", uuids |-> <<>>, drawn |-> {}]
\* the server answered a request
Respond(endpoint, request, status_code, status) ==
  [web EXCEPT !.requests = @ + 1, !.endpoint = endpoint,
              !.request = request, !.status_code = status_code,
              !.status = status]
Serving(impl) == web.impl = impl /\ web.requests < MaxRequests

\* ---- templates/fastapi_server/webhook_listener.py
\* project_name = None: the body has no project_name (pydantic refuses it)
register_project(project_name, bits) ==
  /\ Serving("listener")
  /\ project_name # None => bits \notin web.drawn
  /\ web' =
       IF project_name = None
       THEN Respond("/register", [project_name |-> project_name], 422, "none")
       ELSE LET project_uuid == uuid_str(uuid4(bits)) IN
            [Respond("/register", [project_name |-> project_name], 200,
                     "registered")
               EXCEPT !.REGISTERED_PROJECTS = @ \cup {project_uuid},
                      !.uuids = Append(@, project_uuid),
                      !.drawn = @ \cup {bits}]
  /\ UNCHANGED <<dbtVars, cli, conf, watchVars>>

\* project_uuid = None: the body has no project_uuid
track_usage(project_uuid) ==
  /\ Serving("listener")
  /\ web' =
       IF project_uuid = None
       THEN Respond("/track/usage", [uuid |-> project_uuid], 422, "none")
       ELSE IF project_uuid \notin web.REGISTERED_PROJECTS
       THEN Respond("/track/usage", [uuid |-> project_uuid], 404, "none")
       ELSE [Respond("/track/usage", [uuid |-> project_uuid], 200, "tracked")
               EXCEPT !.USAGE_LOGS = Append(@, project_uuid)]
  /\ UNCHANGED <<dbtVars, cli, conf, watchVars>>

\* json_ok: request.json() parses the body; event_type: the x-github-event
\* header, "unknown" without it
github_webhook(json_ok, event_type, ref) ==
  /\ Serving("listener")
  /\ LET request == [json_ok |-> json_ok, ref |-> ref] IN
     web' =
       IF ~json_ok THEN Respond("/webhook/github", request, 400, "none")
       ELSE [Respond("/webhook/github", request, 200, "received")
               EXCEPT !.background_tasks =
                 IF event_type = "push" /\ ref = <<"refs", "heads", "main">>
                   THEN Append(@, "handle_main_branch_push")
                 ELSE IF event_type = "pull_request"
                   THEN Append(@, "handle_pull_request")
                 ELSE @]
  /\ UNCHANGED <<dbtVars, cli, conf, watchVars>>

\* ---- tests/test_fastapi_webhooks.py: class MockFastAPIApp
\* body.get("project_name", "default_project")
Mock_register_user(project_name, bits) ==
  /\ Serving("mock")
  /\ bits \notin web.drawn
  /\ LET user_uuid == uuid_str(uuid4(bits)) IN
     web' = [Respond("/register", [project_name |-> project_name], 200,
                     "none")
               EXCEPT !.REGISTERED_PROJECTS = @ \cup {user_uuid},
                      !.uuids = Append(@, user_uuid),
                      !.drawn = @ \cup {bits}]
  /\ UNCHANGED <<dbtVars, cli, conf, watchVars>>

\* uuid = None: body.get("uuid") finds no uuid
Mock_track_usage(uuid) ==
  /\ Serving("mock")
  /\ web' = [Respond("/track/usage", [uuid |-> uuid], 200, "logged")
               EXCEPT !.USAGE_LOGS = Append(@, uuid)]
  /\ UNCHANGED <<dbtVars, cli, conf, watchVars>>

\* an unparsable body raises out of the handler: 500
Mock_github_webhook(json_ok, ref) ==
  /\ Serving("mock")
  /\ LET request == [json_ok |-> json_ok, ref |-> ref] IN
     web' =
       IF ~json_ok THEN Respond("/webhook/github", request, 500, "none")
       ELSE [Respond("/webhook/github", request, 200,
                     IF ref # None /\ Len(ref) >= 2 /\ ref[Len(ref)] = "main"
                       THEN "rebuild_triggered" ELSE "ok")
               EXCEPT !.webhook_calls = Append(@, ref)]
  /\ UNCHANGED <<dbtVars, cli, conf, watchVars>>

\* ================================================ the project configuration
ConfigName == <<"sbdk_config.json">>
PathFields == {"duckdb_path", "pipelines_path", "dbt_path", "profiles_dir"}
NoConf ==
  [files |-> <<>>, inits |-> <<>>, op |-> "none", exit_code |-> -1,
   cwd |-> None, config_file |-> None, loaded |-> None, used |-> None]
\* a loader ended: with the dict it returns and the paths as they are used
Load(op, cwd, config_file, loaded, used) ==
  [conf EXCEPT !.op = op, !.exit_code = IF loaded = None THEN 1 ELSE 0,
               !.cwd = cwd, !.config_file = config_file,
               !.loaded = loaded, !.used = used]
\* a relative path handed to the operating system is taken from the
\* working directory
InCwd(config, cwd) ==
  [f \in DOMAIN config |->
     IF f \in PathFields THEN resolve(config[f], cwd) ELSE config[f]]

\* ---- sbdk/cli/commands/init.py: sbdk init project_name [--force] in cwd
cli_init(cwd, project_name, force) ==
  LET project_path == cwd \o <<project_name>>
      duckdb_file == CASE project_name = "my_project" -> "my_project.duckdb"
                       [] project_name = "shop" -> "shop.duckdb"
      config == [project |-> project_name, target |-> "dev",
                 duckdb_path |-> <<"data", duckdb_file>>,
                 pipelines_path |-> <<"pipelines">>,
                 dbt_path |-> <<"dbt">>,
                 profiles_dir |-> <<"~", ".dbt">>]
      config_path == project_path \o ConfigName
  IN
  /\ IF project_path \in fs /\ ~force
       THEN /\ conf' = [conf EXCEPT !.op = "init", !.exit_code = 1]
            /\ fs' = fs
       ELSE /\ conf' = [conf EXCEPT !.op = "init", !.exit_code = 0,
                                    !.files = Put(@, config_path, config),
                                    !.inits = Put(@, config_path, project_name)]
            /\ fs' = fs \cup { project_path, config_path,
                                project_path \o <<"pipelines">>,
                                project_path \o <<"dbt">>,
                                project_path \o <<"data">>,
                                HOME \o <<".dbt">> }
  /\ UNCHANGED <<os_environ, sys_prefix, dbt_module, runner, cli, web,
                 watchVars>>

\* ---- sbdk/cli/commands/run.py: load_config, in a process started in cwd
run_load_config(cwd, config_path) ==
  /\ cwd \in fs
  /\ LET config_file == resolve(config_path, cwd) IN
     conf' = IF config_file \notin fs
               THEN Load("run", cwd, config_file, None, None)
             ELSE Load("run", cwd, config_file, conf.files[config_file],
                       InCwd(conf.files[config_file], cwd))
  /\ UNCHANGED <<dbtVars, cli, web, watchVars>>

\* ---- sbdk-dev/sbdk/cli/dev.py: load_config
dev_load_config(cwd, config_path) ==
  /\ cwd \in fs
  /\ LET searched ==
        << cwd \o config_path, parent(cwd) \o config_path,
           parent(PkgDir) \o config_path >>
      found == IF resolve(config_path, cwd) \in fs THEN config_path
               ELSE FirstWith(searched, fs)
      config_file == resolve(found, cwd)
      config == conf.files[config_file]
      loaded ==
        [f \in DOMAIN config |->
           CASE f \in {"dbt_path", "profiles_dir"} ->
                  resolve(expanduser(config[f]), cwd)
             [] f = "duckdb_path" ->
                  IF is_absolute(config[f]) THEN config[f]
                  ELSE resolve(parent(found) \o config[f], cwd)
             [] OTHER -> config[f]]
     IN
     conf' = IF found = None THEN Load("cli_dev", cwd, None, None, None)
             ELSE Load("cli_dev", cwd, config_file, loaded, InCwd(loaded, cwd))
  /\ UNCHANGED <<dbtVars, cli, web, watchVars>>

\* ---- sbdk-dev/sbdk/core/config.py: SBDKConfig.load_from_file and the
\* get_*_path methods the paths are used through
SBDKConfig_load_from_file(cwd, config_path) ==
  /\ cwd \in fs
  /\ LET config_file == resolve(config_path, cwd)
      config == conf.files[config_file]
     IN
     conf' = IF config_file \notin fs
               THEN Load("core", cwd, config_file, None, None)
             ELSE Load("core", cwd, config_file, config,
                       [f \in DOMAIN config |->
                          CASE f = "profiles_dir" ->
                                 resolve(expanduser(config[f]), cwd)
                            [] f \in PathFields -> resolve(config[f], cwd)
                            [] OTHER -> config[f]])
  /\ UNCHANGED <<dbtVars, cli, web, watchVars>>

\* The clock. Time matters to the debouncing handlers only, so the clock is
\* followed while their observer delivers events. A burst is over once its window has passed.
Tick ==
  /\ Live /\ observing /\ debounce_seconds[handler] > 0 /\ now < MaxTime
  /\ now' = now + 1
  /\ hist' = LET over(t) == now + 1 - t >= debounce_seconds[handler] IN
             [hist EXCEPT !.last_relevant_at = IF over(@) THEN 0 ELSE @,
                          !.burst_at = IF over(@) THEN -1 ELSE @,
                          !.burst_runs = IF over(hist.burst_at) THEN 0 ELSE @]
  /\ UNCHANGED <<visualVars, handler, pc, observing, handlerVars, stateVars, threadVars>>
  /\ UNCHANGED toolVars

WatchInit ==
  /\ handler \in Handlers
  /\ pc = IF handler = "mgr" THEN "idle" ELSE "start"
  /\ observing = FALSE
  /\ now = TimeAtStart
  /\ last_triggered = 0
  /\ pending_files = {}
  /\ file_changes = <<>>
  /\ pipeline_running = FALSE
  /\ total_runs = 0
  /\ successful_runs = 0
  /\ last_run_success = IF handler = "mgr" THEN "ok" ELSE "none"
  /\ auto_run = TRUE
  /\ file_watcher = FALSE
  /\ file_watch_active = FALSE
  /\ pending_manual_run = FALSE
  /\ spawned = 0
  /\ executing = 0
  /\ hist = [events |-> 0, runs |-> 0, last_op |-> "init",
             last_relevant_at |-> 0, last_trigger_at |-> 0,
             burst_at |-> -1, burst_runs |-> 0,
             changed_in_run |-> FALSE, rerun_failed |-> FALSE]

\* no one-shot command invoked
NoCli ==
  [cmd |-> "none", config |-> "ok", pipelines_only |-> FALSE,
   dbt_only |-> FALSE, pc |-> "none", todo |-> <<>>, started |-> <<>>,
   ok |-> <<>>, exit_code |-> -1, hint |-> FALSE, dbt_failure |-> "none",
   watch |-> FALSE, reruns |-> <<>>]
\* the directories and marker files every filesystem below holds
FixedFiles ==
  { HOME, Work, Work \o <<"proj">>, Work \o <<"proj">> \o Marker,
    Work \o <<"proj", "profiles">>, Work \o <<"mono">>,
    Work \o <<"mono", "dbt">>, Work \o <<"mono", "dbt">> \o Marker,
    Work \o <<"empty">>, <<"/", "etc", "dbt">> }
\* a program that drives no dbt: nothing installed, no runner
DbtIdle ==
  /\ os_environ = <<>> /\ sys_prefix = None /\ fs = {}
  /\ dbt_module = FALSE /\ runner = None

Init == WatchInit /\ DbtIdle /\ cli = None /\ web = None /\ conf = None

Next ==
  \/ Tick
  \/ \E p \in Paths, d \in BOOLEAN : Clean_on_modified(p, d)
  \/ Clean_run_pipeline_sync_start
  \/ \E ok \in BOOLEAN : Clean_run_pipeline_sync_finish(ok)
  \/ \E b \in BOOLEAN : Clean_cli_start(b)
  \/ \E ok \in BOOLEAN, go_on \in BOOLEAN : Clean_initial_run_done(ok, go_on)
  \/ \E b \in BOOLEAN : Clean_setup_watcher(b)
  \/ \E cmd \in Commands : handle_command(cmd)
  \/ \E k \in {"KeyboardInterrupt", "EOFError"} : Clean_prompt_interrupt(k)
  \/ \E p \in Paths, d \in BOOLEAN : Starter_on_modified(p, d)
  \/ \E p \in Paths, d \in BOOLEAN : Run_on_modified(p, d)
  \/ \E p \in Paths, d \in BOOLEAN : Dev_on_modified(p, d)
  \/ \E ok \in BOOLEAN : Sync_run_done(ok)
  \/ \E b \in BOOLEAN : Sync_cli_start(b)
  \/ \E ok \in BOOLEAN : Sync_initial_run_done(ok)
  \/ \E b \in BOOLEAN : Sync_setup_watcher(b)
  \/ Sync_interrupt
  \/ Sync_join
  \/ \E p \in Paths, d \in BOOLEAN : Mgr_on_modified(p, d)
  \/ \E p \in Paths, d \in BOOLEAN : Mgr_on_created(p, d)
  \/ Mgr_run_pipelines_done
  \/ Mgr_run_pipeline_manual
  \/ Mgr_run_pipeline_manual_done
  \/ \E b \in BOOLEAN : Visual_initialize(b)
  \/ \E p \in Paths : Visual_on_file_changed(p)
  \/ Visual_run_pipeline_background_start
  \/ \E ok \in BOOLEAN : Visual_run_pipeline_background_finish(ok)
  \/ \E key \in Keys, b \in BOOLEAN : Visual_handle_keyboard_input(key, b)
  \/ Visual_interrupt

Spec == Init /\ [][Next]_vars

\* ------------------------------------------ the rerun loops left to run
\* The dev server and run --watch under their scheduling: the clock goes on,
\* a started thread gets to run, a run in flight ends. File events, commands
\* and interrupts come from outside and are owed to nobody.
InitLive == Init /\ handler \in {"clean", "run"}

NextLive ==
  \/ Tick
  \/ \E p \in Paths, d \in BOOLEAN : Clean_on_modified(p, d)
  \/ Clean_run_pipeline_sync_start
  \/ Clean_run_pipeline_sync_start_together
  \/ \E ok \in BOOLEAN : Clean_run_pipeline_sync_finish(ok)
  \/ \E b \in BOOLEAN : Clean_cli_start(b)
  \/ \E ok \in BOOLEAN, go_on \in BOOLEAN : Clean_initial_run_done(ok, go_on)
  \/ \E b \in BOOLEAN : Clean_setup_watcher(b)
  \/ \E cmd \in Commands : handle_command(cmd)
  \/ \E k \in {"KeyboardInterrupt", "EOFError"} : Clean_prompt_interrupt(k)
  \/ \E p \in Paths, d \in BOOLEAN : Run_on_modified(p, d)
  \/ \E ok \in BOOLEAN : Sync_run_done(ok)
  \/ \E b \in BOOLEAN : Sync_cli_start(b)
  \/ \E ok \in BOOLEAN : Sync_initial_run_done(ok)
  \/ \E b \in BOOLEAN : Sync_setup_watcher(b)
  \/ Sync_interrupt
  \/ Sync_join

SpecLive ==
  /\ InitLive /\ [][NextLive]_vars
  /\ WF_vars(Tick)
  /\ WF_vars(Clean_run_pipeline_sync_start)
  /\ WF_vars(\E ok \in BOOLEAN : Clean_run_pipeline_sync_finish(ok))
  /\ WF_vars(\E ok \in BOOLEAN : Sync_run_done(ok))

\* ------------------------------------------- the transform runner at work
\* The environments, installations and arguments the runners are given.
ExeCandidates ==
  { Venv \o <<"bin", "dbt">>, Usr \o <<"bin", "dbt">>,
    HOME \o <<".local", "bin", "dbt">>, OptBin \o <<"dbt">> }
PATHs == { << Usr \o <<"bin">>, OptBin >> }
ProfilesValues ==
  { <<"~", ".dbt">>, <<"profiles">>, <<"/", "etc", "dbt">> }
ProfilesDirs == { DefaultProfiles, Work \o <<"profiles">> }
Cwds == { Work, Work \o <<"mono">> }
ProjectDirs == { None, <<"proj">>, <<"mono">>, <<"empty">> }
ProfilesArgs == { None, <<"~", ".dbt">>, <<"profiles">> }

\* os.environ with the names in `set` set
Environ(set, path, profiles) ==
  [n \in set \cup {"HOME"} |->
     CASE n = "HOME" -> HOME
       [] n = "VIRTUAL_ENV" -> Venv
       [] n = "PATH" -> path
       [] OTHER -> profiles]

\* installations: which of the candidate executables exist
InitExecutables ==
  /\ \E set \in SUBSET {"VIRTUAL_ENV"}, path \in PATHs :
       os_environ = Environ(set \cup {"PATH"}, path, None)
  /\ sys_prefix \in {Venv, Usr}
  /\ \E exes \in SUBSET ExeCandidates :
       fs = FixedFiles \cup exes \cup {DefaultProfiles}
  /\ dbt_module \in BOOLEAN

\* profiles: what DBT_PROFILES_DIR says and which profile directories exist
InitProfiles ==
  /\ \E set \in SUBSET {"VIRTUAL_ENV", "PATH", "DBT_PROFILES_DIR"},
        path \in PATHs, profiles \in ProfilesValues :
       os_environ = Environ(set, path, profiles)
  /\ sys_prefix = Usr
  /\ \E dirs \in SUBSET ProfilesDirs :
       fs = FixedFiles \cup dirs
               \cup {Venv \o <<"bin", "dbt">>, Usr \o <<"bin", "dbt">>}
  /\ dbt_module = FALSE

InitDbt ==
  /\ WatchInit /\ handler = "clean"
  /\ InitExecutables \/ InitProfiles
  /\ runner = NoRunner
  /\ cli = None /\ web = None /\ conf = None

NextDbt ==
  \/ \E cwd \in Cwds, project_dir \in ProjectDirs :
       DBTRunner_init(cwd, project_dir)
  \/ \E returncode \in ExitCodes : DBTRunner_run_dbt_command(returncode)
  \/ \E cwd \in Cwds, project_dir \in ProjectDirs,
        profiles_dir \in ProfilesArgs :
       DbtRunner_init(cwd, project_dir, profiles_dir)
  \/ \E check \in BOOLEAN, returncode \in ExitCodes :
       DbtRunner_run_command(check, returncode)
  \/ \E cwd \in Cwds, project_dir \in ProjectDirs,
        returncode \in ExitCodes :
       dbt_run(cwd, project_dir, TRUE, returncode)

SpecDbt == InitDbt /\ [][NextDbt]_vars

\* --------------------------------------------- the one-shot commands at work
InitCli ==
  /\ WatchInit /\ handler = "clean"
  /\ DbtIdle /\ web = None /\ conf = None
  /\ \E cmd \in {"run", "dev", "cli_dev"},
        config \in {"ok", "missing", "malformed"},
        pipelines_only \in BOOLEAN, dbt_only \in BOOLEAN,
        watch \in BOOLEAN :
       /\ watch => cmd = "run"
       /\ cli = [NoCli EXCEPT !.cmd = cmd, !.config = config, !.pc = "start",
                              !.pipelines_only = pipelines_only,
                              !.dbt_only = dbt_only, !.watch = watch]
     \/ cli = [NoCli EXCEPT !.cmd = "ui", !.pc = "steps",
                            !.todo = Planned("ui", FALSE, FALSE)]

NextCli ==
  \/ Run_load_config
  \/ \E returncode \in ExitCodes : Run_run_pipeline_module(returncode)
  \/ \E found \in BOOLEAN, returncode \in ExitCodes : Run_dbt(found, returncode)
  \/ \E path \in Paths, n \in 1..5, success \in BOOLEAN :
       PipelineFileHandler_on_modified(path, n, success)
  \/ Run_watch_interrupt
  \/ \E lazy \in BOOLEAN : Dev_load_config(lazy)
  \/ \E present \in BOOLEAN, success \in BOOLEAN :
       Dev_run_pipeline_module(present, success)
  \/ \E found \in BOOLEAN, returncode \in ExitCodes : Dev_dbt(found, returncode)
  \/ CliDev_load_config
  \/ \E returncode \in ExitCodes : CliDev_run_pipeline_module(returncode)
  \/ \E constructed \in BOOLEAN, returncode \in ExitCodes :
       CliDev_dbt(constructed, returncode)
  \/ \E returncode \in ExitCodes : Ui_step(returncode)

SpecCli == InitCli /\ [][NextCli]_vars

\* ------------------------------------------------ the webhook server at work
InitWeb ==
  /\ WatchInit /\ handler = "clean"
  /\ DbtIdle /\ cli = None /\ conf = None
  /\ \E impl \in {"listener", "mock"} : web = [NoWeb EXCEPT !.impl = impl]

\* a ref is cut at "/"; None: the body carries no ref, no uuid, no name
NextWeb ==
  \/ \E project_name \in {<<"p">>, None}, bits \in RandomBits :
       \/ register_project(project_name, bits)
       \/ Mock_register_user(project_name, bits)
  \/ \E uuid \in {uuid_str(uuid4(bits)) : bits \in RandomBits} \cup {None} :
       \/ track_usage(uuid)
       \/ Mock_track_usage(uuid)
  \/ \E json_ok \in BOOLEAN,
        ref \in { <<"refs", "heads", "main">>, <<"main">>, None,
                  <<"refs", "heads", "feature-branch">>,
                  <<"refs", "tags", "main">> } :
       \/ \E event_type \in {"push", "pull_request", "unknown"} :
            github_webhook(json_ok, event_type, ref)
       \/ Mock_github_webhook(json_ok, ref)

SpecWeb == InitWeb /\ [][NextWeb]_vars

\* --------------------------------------- the project configuration at work
InitConf ==
  /\ WatchInit /\ handler = "clean"
  /\ os_environ = <<>> /\ sys_prefix = None /\ dbt_module = FALSE
  /\ fs = {Work, HOME} /\ runner = None /\ cli = None /\ web = None
  /\ conf = NoConf

\* init runs in /work; a later command starts in /work, in a project
\* directory or in its dbt directory, with the default configuration
\* path or with --config naming the file of a project
NextConf ==
  \/ \E project_name \in {"my_project", "shop"}, force \in BOOLEAN :
       cli_init(Work, project_name, force)
  \/ \E cwd \in {Work, Work \o <<"my_project">>, Work \o <<"shop">>,
                  Work \o <<"my_project", "dbt">>},
        config_path \in {ConfigName, <<"shop">> \o ConfigName,
                         Work \o <<"my_project">> \o ConfigName} :
       \/ run_load_config(cwd, config_path)
       \/ dev_load_config(cwd, config_path)
       \/ SBDKConfig_load_from_file(cwd, config_path)

SpecConf == InitConf /\ [][NextConf]_vars

\* ========================================================================
\* Properties
\* ========================================================================

\* C1: in watch/dev mode at most one pipeline+transform execution is in
\* flight at any time, whatever the interleaving of file-change triggers,
\* manual runs and auto-run re-enabling.
C1_AtMostOneRunInFlight == executing <= 1

\* C2: a relevant change that arrives while a rerun is in progress gets a
\* rerun of its own after the current one completes: once the dev server is
\* back to rest with auto-run on, no change handled during a run (outside
\* any debounce window) is left without a run started, or at least flagged
\* as pending, after it.
C2_ChangeDuringRunGetsRerun ==
  (handler = "clean" /\ observing /\ auto_run /\ hist.changed_in_run)
    => (executing > 0 \/ spawned > 0 \/ pending_manual_run)

\* C3: a burst of relevant events inside one debounce window, delivered to
\* an idle loop with auto-run on (no run in flight, no relevant event during
\* the last window), has started exactly one rerun.
C3_BurstStartsExactlyOneRerun ==
  (handler \in {"clean", "starter"} /\ hist.burst_at >= 0) => hist.burst_runs = 1

\* the handlers of run --watch and dev --watch, and the paths they watch
ThrottleHandlers == {"run", "dev"}
WatchedPaths == { p \in Paths : \E e \in watched_suffixes : EndsWith(p, e) }
OnWatchedEvent ==
  \E p \in WatchedPaths : Run_on_modified(p, FALSE) \/ Dev_on_modified(p, FALSE)
Elapsed(t) ==
  IF handler = "dev" THEN now - t > debounce_seconds[handler]
                     ELSE now - t >= debounce_seconds[handler]

RelevantPaths == { p \in Paths : Relevant(p, FALSE) }
InHistory(p, fc) == \E i \in DOMAIN fc : fc[i] = p
NoRunStarted ==
  /\ spawned' = spawned /\ executing' = executing
  /\ total_runs' = total_runs /\ pipeline_running' = pipeline_running

C6_DisabledRecordsEveryChange ==
  [][\A p \in RelevantPaths :
        (~auto_run /\ Clean_on_modified(p, FALSE))
          => /\ NoRunStarted
             /\ pending_manual_run'
             /\ InHistory(p, file_changes')]_vars

\* a manual run is requested: 'r' at the dev server's prompt,
\* run_pipeline_manual of the state-manager variant, 'r' in the visual CLI
ManualRunRequested ==
  \/ handle_command("r")
  \/ Mgr_run_pipeline_manual
  \/ \E b \in BOOLEAN : Visual_handle_keyboard_input("r", b)

\* C7: a manual run requested while a run is in progress does nothing: no
\* thread is started, and the running flag and the run counters stay as
\* they are.
C7_ManualRunRefusedWhileRunning ==
  [][(executing > 0 /\ ManualRunRequested)
       => NoRunStarted /\ successful_runs' = successful_runs]_vars

\* a run started by the watch loop fails / a relevant change is delivered
RerunFails ==
  \/ Clean_run_pipeline_sync_finish(FALSE)
  \/ Sync_run_done(FALSE)
ChangeDelivered ==
  \/ \E p \in RelevantPaths : Clean_on_modified(p, FALSE) \/ Starter_on_modified(p, FALSE)
  \/ OnWatchedEvent
RunStarted == spawned' = spawned + 1 \/ executing' = executing + 1

\* C8: a failing rerun leaves the watch loop where it was, still observing,
\* with the running flag false; the next manual command, and the next
\* relevant change outside the debounce window with auto-run on, start a
\* new run.
C8_FailedRerunKeepsLoop ==
  [][/\ RerunFails
          => /\ pc' = pc /\ observing' = observing /\ auto_run' = auto_run
             /\ ~pipeline_running'
     /\ (hist.last_op = "run_failed" /\ handle_command("r")) => RunStarted
     /\ (hist.last_op = "run_failed" /\ auto_run /\ Elapsed(last_triggered)
           /\ ChangeDelivered) => RunStarted]_vars

C8_Witness ==
  /\ hist.rerun_failed /\ last_run_success = "failed"
  /\ hist.last_op \in {"manual_run", "auto_run"}
  /\ spawned = 1 /\ executing = 0 /\ ~pipeline_running
  /\ observing /\ pc = "prompt"

C10_IrrelevantEventChangesNothing ==
  [][\A p \in Paths \ RelevantPaths :
        (\/ Clean_on_modified(p, FALSE) \/ Starter_on_modified(p, FALSE)
         \/ Run_on_modified(p, FALSE) \/ Dev_on_modified(p, FALSE))
          => UNCHANGED <<handlerVars, stateVars, threadVars>>]_vars

\* a modification of p reaches the watch handler of the running program
ModificationDelivered(p) ==
  \/ Clean_on_modified(p, FALSE) \/ Starter_on_modified(p, FALSE)
  \/ Run_on_modified(p, FALSE) \/ Dev_on_modified(p, FALSE)
  \/ Visual_on_file_changed(p)

\* C11: a modification of a file with an allow-listed extension (.py, .sql,
\* .yml, .yaml, .json), delivered while the loop is idle, auto-run is on and
\* no debounce window is open, starts a rerun.
C11_AllowListedChangeStartsRerun ==
  [][\A p \in RelevantPaths :
        (/\ executing = 0 /\ spawned = 0 /\ ~pipeline_running
         /\ auto_run /\ Elapsed(last_triggered)
         /\ ModificationDelivered(p))
          => RunStarted]_vars

\* ------------------------------------------------ the transform runner
\* the candidates in the order venv bin, interpreter prefix, user-local
\* directories, PATH; then the module, then nothing
FirstAvailable(cwd) ==
  LET venv == IF "VIRTUAL_ENV" \in DOMAIN os_environ
                THEN << os_environ["VIRTUAL_ENV"] \o <<"bin", "dbt">> >>
                ELSE <<>>
      path == Get(os_environ, "PATH", <<>>)
      on_path == [i \in 1..Len(path) |-> resolve(path[i], cwd) \o <<"dbt">>]
      found == FirstWith(venv \o << sys_prefix \o <<"bin", "dbt">> >>
                           \o uv_paths \o on_path, fs)
  IN IF found # None THEN found
     ELSE IF dbt_module THEN PythonModule
     ELSE None

\* the runner object went through executable resolution
Resolved == runner.impl \in {"fixed", "utils"} /\ runner.error # "ValueError"

\* C12: executable resolution returns the first available candidate in the
\* order venv bin, interpreter prefix, user-local directories, PATH lookup,
\* module invocation, and fails only when none of them is available.
C12_ResolvesInClaimedOrder ==
  Resolved => runner.dbt_path = FirstAvailable(runner.cwd)

\* C13: with the environment unchanged, a second resolution in the same
\* process gives the same executable and profiles directory as the first, and
\* a second run gets the same environment and working directory as the first.
C13_ResolutionIsIdempotent ==
  [][/\ runner'.call = "init_again" =>
          /\ runner'.dbt_path = runner.dbt_path
          /\ runner'.profiles_dir = runner.profiles_dir
          /\ runner'.error = "" <=> runner.dbt_path # None
     /\ runner'.call = "run_again" =>
          /\ runner'.env = runner.env
          /\ runner'.work_dir = runner.work_dir]_vars

\* a second run of a runner that was constructed, in an active virtual
\* environment, with the profiles directory the construction had to create
C13_Witness ==
  /\ runner.call = "run_again" /\ runner.impl = "fixed"
  /\ runner.result = "returned"
  /\ "VIRTUAL_ENV" \in DOMAIN os_environ
  /\ "DBT_PROFILES_DIR" \notin DOMAIN os_environ
  /\ runner.profiles_dir = DefaultProfiles
  /\ Len(runner.env["PATH"]) > 1

\* C14: a transform command is executed only in a directory that holds the
\* project marker: the supplied directory, or its dbt subdirectory when the
\* supplied one lacks the marker; otherwise the runner fails.
C14_RunsOnlyWhereMarkerIs ==
  runner.work_dir # None =>
    /\ has_marker(runner.work_dir, runner.cwd)
    /\ LET supplied == IF runner.arg_project_dir # None
                         THEN runner.arg_project_dir ELSE runner.cwd
       IN resolve(runner.work_dir, runner.cwd) \in
            { resolve(supplied, runner.cwd),
              resolve(supplied \o <<"dbt">>, runner.cwd) }

\* ------------------------------------------------ the one-shot commands
\* C15: a transform subprocess that exits non-zero ends the pipeline
\* execution with a raised failure, and the command does not go on to report
\* success: the failure is never dropped.
C15_NonZeroExitIsAFailure ==
  cli.dbt_failure # "none" =>
    /\ cli.dbt_failure = "raised"
    /\ ~cli.ok[Len(cli.ok)] /\ cli.exit_code # 0

\* C16: the environment handed to the transform subprocess has
\* DBT_PROFILES_DIR set to an absolute path without ~, whatever the parent
\* environment or the arguments said.
C16_ProfilesDirIsAbsolute ==
  runner.env # <<>> =>
    /\ "DBT_PROFILES_DIR" \in DOMAIN runner.env
    /\ is_absolute(runner.env["DBT_PROFILES_DIR"])
    /\ \A i \in 1..Len(runner.env["DBT_PROFILES_DIR"]) :
         runner.env["DBT_PROFILES_DIR"][i] # "~"

\* C17: the environment handed to the subprocess is the parent environment,
\* except that with VIRTUAL_ENV set PATH has the virtual environment's bin
\* directory in front of the parent's PATH, and that DBT_PROFILES_DIR is set;
\* with no virtual environment (VIRTUAL_ENV unset, system interpreter) PATH is
\* the parent's.
C17_EnvIsParentWithVenvFirst ==
  runner.env # <<>> =>
    LET env == runner.env
        kept == DOMAIN os_environ \ {"PATH", "DBT_PROFILES_DIR"}
    IN /\ \A n \in kept : n \in DOMAIN env /\ env[n] = os_environ[n]
       /\ "VIRTUAL_ENV" \in DOMAIN os_environ =>
            LET venv_bin == os_environ["VIRTUAL_ENV"] \o <<"bin">>
            IN /\ "PATH" \in DOMAIN env
               /\ \E k \in 1..Len(env["PATH"]) :
                    /\ \A i \in 1..k : env["PATH"][i] = venv_bin
                    /\ SubSeq(env["PATH"], k + 1, Len(env["PATH"]))
                         \in {Get(os_environ, "PATH", <<>>),
                              Get(os_environ, "PATH", EmptyPATH)}
       /\ ("VIRTUAL_ENV" \notin DOMAIN os_environ /\ sys_prefix = Usr) =>
            /\ "PATH" \in DOMAIN env <=> "PATH" \in DOMAIN os_environ
            /\ Get(env, "PATH", <<>>) = Get(os_environ, "PATH", <<>>)

\* a one-shot command that has ended
OneShotEnded == cli.cmd \in {"run", "dev", "cli_dev"} /\ cli.pc = "done"
SomeStepFailed == \E i \in 1..Len(cli.ok) : ~cli.ok[i]

\* C18: a one-shot command exits 0 only if every step it executed succeeded,
\* and exits non-zero when a pipeline or transform step failed.
C18_ExitCodeTellsFailure ==
  (OneShotEnded /\ SomeStepFailed) => cli.exit_code \in ExitCodes \ {0}

\* C19: with a missing or malformed config file a command ends at once with
\* exit code 1 and a message that suggests running init; no step is started.
C19_BadConfigExitsWithHint ==
  (cli.cmd \in {"run", "dev", "cli_dev"} /\ cli.config # "ok"
   /\ cli.pc # "start") =>
    /\ cli.pc = "done" /\ cli.exit_code = 1
    /\ cli.hint /\ cli.started = <<>>

\* the steps of a run in the stated order, less what the flags leave out
StatedOrder ==
  (IF cli.dbt_only THEN <<>> ELSE <<"users", "events", "orders">>)
    \o (IF cli.pipelines_only THEN <<>> ELSE <<"dbt run", "dbt test">>)

\* C20: a run starts its steps in the order users, events, orders, dbt run,
\* dbt test, each one only after the one before it succeeded, and a run
\* without a failure goes through all of them.
C20_StepsInOrderAfterSuccess ==
  cli.cmd # "none" =>
    /\ Len(cli.started) <= Len(StatedOrder)
    /\ cli.started = SubSeq(StatedOrder, 1, Len(cli.started))
    /\ \A i \in 1..(Len(cli.started) - 1) : cli.ok[i]
    /\ (cli.pc = "done" /\ cli.config = "ok" /\ ~SomeStepFailed
        /\ cli.exit_code \in {-1, 0}) => cli.started = StatedOrder

\* ---- C21: with --pipelines-only exactly the three extraction modules run
\* and no dbt step, with --dbt-only no extraction module does, in the
\* initial run and in every rerun the watcher starts
C21_FlagsHoldOnEveryRun ==
  LET StepsOf(run) == {run[i] : i \in DOMAIN run}
      HonoursFlags(run) ==
        /\ cli.pipelines_only => StepsOf(run) \subseteq Extraction
        /\ cli.dbt_only => StepsOf(run) \cap Extraction = {}
  IN  cli.cmd = "run" =>
        /\ HonoursFlags(cli.started)
        /\ \A i \in DOMAIN cli.reruns : HonoursFlags(cli.reruns[i])

\* ------------------------------------------------ the webhook server
\* ---- C22: POST /webhook/github answers {"status": "rebuild_triggered"}
\* when the payload's ref ends in /main, and {"status": "ok"} for every
\* other ref and for a payload without ref
C22_MainRefTriggersRebuild ==
  (web.endpoint = "/webhook/github" /\ web.request.json_ok) =>
    LET ref == web.request.ref IN
    web.status = IF Len(ref) >= 2 /\ ref[Len(ref)] = "main"
                   THEN "rebuild_triggered" ELSE "ok"

\* ---- C23: POST /track/usage always answers 200 and logs the event, also
\* when the uuid is missing from the body or was never registered
C23_UsageAlwaysLogged ==
  web.endpoint = "/track/usage" =>
    /\ web.status_code = 200
    /\ web.USAGE_LOGS # <<>>
    /\ web.USAGE_LOGS[Len(web.USAGE_LOGS)] = web.request.uuid

C25_LoadedConfigIsAbsolute ==
  (conf.op \in {"run", "cli_dev", "core"} /\ conf.exit_code = 0) =>
    /\ conf.loaded.project = conf.inits[conf.config_file]
    /\ \A f \in PathFields : is_absolute(conf.loaded[f])

\* ---- C26: a relative path of a loaded configuration is resolved against
\* the directory of the configuration file, not the working directory,
\* before it is used
C26_RelativeToConfigFile ==
  (conf.op \in {"run", "cli_dev", "core"} /\ conf.exit_code = 0) =>
    \A f \in PathFields :
      LET written == conf.files[conf.config_file][f] IN
      (~is_absolute(written) /\ written[1] # "~") =>
        conf.used[f] = parent(conf.config_file) \o written

\* ------------------------------------------------ the rerun loops left to run
\* ---- C27: no relevant change is lost: while auto-run is on, every relevant
\* change event, also one suppressed inside the debounce window, is
\* eventually followed by a rerun that starts after the event (as long as
\* the loop goes on observing)
C27_NoRelevantChangeLost ==
  \A n \in 0..MaxRuns :
    (/\ observing /\ Live /\ auto_run
     /\ \/ hist.last_op \in {"debounced", "shown_only"}
        \/ hist.last_op = "auto_run" /\ handler = "clean"
     /\ hist.last_relevant_at = now
     /\ hist.runs = n)
    ~> (hist.runs > n \/ ~observing \/ ~Live \/ ~auto_run)

\* ------------------------------------------------ the dev server, again
\* ---- C28: once the pending-change flag has been cleared, by a run
\* starting or by the clear command, switching auto-run back on starts no
\* run until a new relevant change is recorded: a starting run and the clear
\* command leave the flag down, only a recorded relevant change raises it,
\* and re-enabling auto-run with the flag down starts nothing
C28_ReenableAfterClearStartsNothing ==
  [][handler = "clean" =>
       /\ hist'.last_op \in {"cleared", "run_started"} => ~pending_manual_run'
       /\ (~pending_manual_run /\ pending_manual_run') => hist'.last_op = "hint"
       /\ (~auto_run /\ auto_run' /\ ~pending_manual_run)
            => NoRunStarted /\ hist'.last_op = "auto_on"]_vars

C28_Witness ==
  /\ handler = "clean" /\ hist.last_op = "auto_on" /\ auto_run
  /\ last_triggered > 0 /\ file_changes = <<>> /\ ~pending_manual_run
  /\ spawned = 0 /\ executing = 0 /\ total_runs = 0

\* ---- C29: in the dev-server state successful_runs never exceeds
\* total_runs, and total_runs is the number of runs started (initial,
\* automatic and manual), whatever the interleaving of the run threads
C29_RunCountersAgree ==
  handler \in {"clean", "mgr"} =>
    /\ successful_runs <= total_runs
    /\ total_runs = hist.runs

\* ---- C30: in the visual CLI, once auto-run has been switched off and on
\* again, file watching is active again, with its one polling thread
\* running, so that later file changes start reruns
C30_ReenableRestartsWatching ==
  (/\ handler = "visual" /\ pc = "main_loop"
   /\ hist.last_op = "auto_on" /\ file_watcher)
    => (auto_run /\ observing /\ file_watch_active)

====
